---- MODULE Spec2Model ----
(***************************************************************************)
(* Model of the Spotify playlist updater                                   *)
(* (src/spotipy_utils.py, src/update_spotify_playlists.py).                *)
(*                                                                         *)
(* A track is the 5-tuple built at spotipy_utils.py:71-77,                 *)
(*   <<track_id, name, release_date, threads, artist_name>>,               *)
(* so Python's track[0] is track[1] here and track[2] is track[3].         *)
(* A playlist is the sequence of the track ids it stores, head first.      *)
(***************************************************************************)
EXTENDS Integers, Sequences, FiniteSets, TLC

VARIABLES
    \* ---- update_playlists (update_spotify_playlists.py:157-206) ----
    rr_playlist,                  \* provider state: ids in the recent-releases playlist
    all_playlist,                 \* provider state: ids in the all-this-year playlist
    rr_playlist_tracks,           \* argument: desired recent list
    all_playlist_tracks,          \* argument: desired year-to-date list
    dry_run,                      \* config['dry_run']
    pc,                           \* position inside update_playlists
    results,                      \* get_playlist_tracks: the page last returned
    tracks,                       \* get_playlist_tracks: items accumulated so far
    existing_rr_playlist_tracks,
    existing_all_playlist_tracks,
    new_rr_tracks,
    new_all_tracks,
    old_rr_track_ids,
    i,                            \* loop variable of range(0, len(new_all_tracks), 50)
    calls,                        \* mutating provider calls issued by the current run
    returned,                     \* value returned by the current run, <<>> until it returns
    run,                          \* number of the current run of the script
    prev_pc,                      \* how the previous run ended ("none" in the first run)
    failed_at,                    \* position at which the current run's provider call raised
    prev_failed_at,               \* the same, for the previous run
    rr0,                          \* recent-releases playlist before the first run
    all0,                         \* all-this-year playlist before the first run
    \* ---- collect_tracks (update_spotify_playlists.py:123-155) ----
    today,                        \* datetime.date.today(), a date <<y, m, d>>
    n_days_ago,                   \* config['n_days_ago']
    artists,                      \* the roster load_artists returned
    catalog,                      \* what the provider answers about each artist
    a_idx,                        \* index of the next artist of `for artist in artists`
    c_all_playlist_tracks,        \* collect_tracks' all_playlist_tracks
    c_rr_playlist_tracks,         \* collect_tracks' rr_playlist_tracks
    last_call,                    \* the last get_recent_track call and its result
    c_pc,                         \* position inside collect_tracks
    \* ---- deduplicate_track_list (spotipy_utils.py:130-160) ----
    dd_tracks,                    \* argument: tracks
    unique_tracks,                \* the list returned
    dd_pc                         \* "call" before the call, "done" after it

syncVars == <<rr_playlist, all_playlist, rr_playlist_tracks, all_playlist_tracks,
              dry_run, pc, results, tracks, existing_rr_playlist_tracks,
              existing_all_playlist_tracks, new_rr_tracks, new_all_tracks,
              old_rr_track_ids, i, calls, returned, run, prev_pc, failed_at,
              prev_failed_at, rr0, all0>>

collectVars == <<today, n_days_ago, artists, catalog, a_idx, c_all_playlist_tracks,
                 c_rr_playlist_tracks, last_call, c_pc>>

dedupVars == <<dd_tracks, unique_tracks, dd_pc>>

vars == <<syncVars, collectVars, dedupVars>>

----------------------------------------------------------------------------
(* Bounds of the model *)

\* Track ids that may occur in the recent-releases playlist and recent list.
MaxId == 2
\* Track ids that may occur in the all-this-year playlist and year list.
MaxAllId == 2
\* Longest initial playlist.
MaxLen == 3
\* Longest desired list among the exhaustively enumerated inputs.
MaxDesired == 2
\* Number of items the provider returns per playlist page.
PageSize == 2
\* Number of times the script is run in a row.
MaxRuns == 2

\* The calendar of the model: years 1..MaxYear of MonthsPerYear months of
\* DaysPerMonth days each.
MaxYear == 2
MonthsPerYear == 2
DaysPerMonth == 2
\* Largest lookback, in days.
MaxLookback == 3
\* Longest roster and longest album list of one artist.
MaxArtists == 2
MaxAlbums == 2
\* Longest input of deduplicate_track_list; its titles are 1..MaxTracks.
MaxTracks == 2

(* Program constants *)

\* Chunk length of the year-list additions.
BatchSize == 50

----------------------------------------------------------------------------
(* Helpers *)

Min(a, b) == IF a < b THEN a ELSE b

SeqSet(s) == {s[k] : k \in 1..Len(s)}

BoundedSeq(S, n) == UNION {[1..m -> S] : m \in 0..n}

NoDup(s) == \A a, b \in 1..Len(s) : s[a] = s[b] => a = b

\* The track tuple of a given id; name and date follow the id.
MkTrack(id) == <<id, id, <<1, 1, 1>>, "threads", "name">>

\* [track[0] for track in tracks]
TrackIds(ts) == [k \in 1..Len(ts) |-> ts[k][1]]

\* the tracks of ids 1, ..., n, in that order
TrackRange(n) == [k \in 1..n |-> MkTrack(k)]

----------------------------------------------------------------------------
(* The provider (spotipy client) *)

\* sp.playlist_tracks(playlist_id) and sp.next(results): one page of the
\* playlist starting at offset; next is the offset of the following page,
\* 0 standing for None.
PlaylistPage(playlist, offset) ==
    [items |-> SubSeq(playlist, offset + 1, Min(offset + PageSize, Len(playlist))),
     next  |-> IF offset + PageSize < Len(playlist) THEN offset + PageSize ELSE 0]

\* sp.playlist_remove_all_occurrences_of_items(playlist_id, ids)
RemoveAllOccurrences(playlist, ids) ==
    SelectSeq(playlist, LAMBDA id : id \notin SeqSet(ids))

\* sp.playlist_add_items(playlist_id, ids, position=0)
AddItemsAtHead(playlist, ids) == ids \o playlist

----------------------------------------------------------------------------
(* Release dates *)

\* A release date as the provider sends it is the string "YYYY", "YYYY-MM"
\* or "YYYY-MM-DD", written <<y>>, <<y, m>>, <<y, m, d>>; the fields are
\* zero-padded, so Python's order on the strings is the order below: field
\* by field, a proper prefix before its extensions.
RECURSIVE StrLess(_, _)
StrLess(a, b) ==
    IF a = <<>> THEN b # <<>>
    ELSE IF b = <<>> THEN FALSE
    ELSE IF a[1] # b[1] THEN a[1] < b[1]
    ELSE StrLess(Tail(a), Tail(b))

\* release_date is None
NoneDate == <<>>
\* a string dateutil cannot read, such as the provider's "0000"
UnparsableDate == <<0>>

DateStrings ==
    {<<y>> : y \in 1..MaxYear}
    \cup {<<y, m>> : y \in 1..MaxYear, m \in 1..MonthsPerYear}
    \cup {<<y, m, d>> : y \in 1..MaxYear, m \in 1..MonthsPerYear, d \in 1..DaysPerMonth}

\* date.toordinal(): the number of days since the first day of year 0.
Ordinal(date) ==
    (date[1] * MonthsPerYear + (date[2] - 1)) * DaysPerMonth + (date[3] - 1)

\* dateutil.parser.parse(s).date() on the day `now`: None raises TypeError,
\* an unreadable string raises ParserError (a ValueError), and the fields a
\* readable string leaves out are taken from the current date.
Parse(s, now) ==
    IF s = NoneDate THEN [err |-> "TypeError", date |-> <<>>]
    ELSE IF s = UnparsableDate THEN [err |-> "ValueError", date |-> <<>>]
    ELSE [err |-> "",
          date |-> <<s[1],
                     IF Len(s) >= 2 THEN s[2] ELSE now[2],
                     IF Len(s) >= 3 THEN s[3] ELSE now[3]>>]

----------------------------------------------------------------------------
(* deduplicate_track_list *)

\* TrackDictPut with the comparison of line 151 turned around, so that the
\* oldest version of a title is kept.
TrackDictPutOldest(track_dict, track) ==
    IF Len(track) < 5 THEN track_dict
    ELSE IF \E k \in 1..Len(track_dict) : track_dict[k][2] = track[2]
         THEN [k \in 1..Len(track_dict) |->
                  IF track_dict[k][2] = track[2] /\ StrLess(track[3], track_dict[k][3])
                     THEN track
                     ELSE track_dict[k]]
         ELSE Append(track_dict, track)

\* lines 145-152: one iteration of `for track in tracks`.  track_dict is the
\* sequence of the dict's values in insertion order; assigning to a key the
\* dict already holds keeps the key's place.
TrackDictPut(track_dict, track) ==
    IF Len(track) < 5 THEN track_dict
    ELSE IF \E k \in 1..Len(track_dict) : track_dict[k][2] = track[2]
         THEN [k \in 1..Len(track_dict) |->
                  IF track_dict[k][2] = track[2] /\ StrLess(track_dict[k][3], track[3])
                     THEN track
                     ELSE track_dict[k]]
         ELSE Append(track_dict, track)

RECURSIVE TrackDict(_)
TrackDict(ts) ==
    IF ts = <<>> THEN <<>>
    ELSE TrackDictPut(TrackDict(SubSeq(ts, 1, Len(ts) - 1)), ts[Len(ts)])

\* list.sort(key=lambda x: x[2]): stable, oldest first.
RECURSIVE SortByDate(_)
SortByDate(ts) ==
    IF ts = <<>> THEN <<>>
    ELSE LET sorted == SortByDate(SubSeq(ts, 1, Len(ts) - 1))
             last   == ts[Len(ts)]
             n      == Cardinality({k \in 1..Len(sorted) :
                                       ~StrLess(last[3], sorted[k][3])})
         IN  SubSeq(sorted, 1, n) \o <<last>> \o SubSeq(sorted, n + 1, Len(sorted))

\* list.sort(key=lambda x: x[2], reverse=True): stable, newest first.
RECURSIVE SortByDateDesc(_)
SortByDateDesc(ts) ==
    IF ts = <<>> THEN <<>>
    ELSE LET sorted == SortByDateDesc(SubSeq(ts, 1, Len(ts) - 1))
             last   == ts[Len(ts)]
             n      == Cardinality({k \in 1..Len(sorted) :
                                       ~StrLess(sorted[k][3], last[3])})
         IN  SubSeq(sorted, 1, n) \o <<last>> \o SubSeq(sorted, n + 1, Len(sorted))

deduplicate_track_list(ts) == SortByDate(TrackDict(ts))

\* The k-th record of an input: the 5-tuple of a title and a date, or, for
\* the date <<>>, a malformed record of two fields.
DedupRecord(k, title, date) ==
    IF date = <<>> THEN <<k, title>>
    ELSE <<k, title, date, "threads", "name">>

DedupIdle ==
    /\ dd_tracks = <<>>
    /\ unique_tracks = <<>>
    /\ dd_pc = "idle"

Deduplicate ==
    /\ dd_pc = "call"
    /\ unique_tracks' = deduplicate_track_list(dd_tracks)
    /\ dd_pc' = "done"
    /\ UNCHANGED <<dd_tracks, syncVars, collectVars>>

----------------------------------------------------------------------------
(* get_recent_track and collect_tracks *)

\* Python's None where a track tuple is expected.
None == <<>>

\* The tracks sp.album_tracks lists for album k of artist a: k tracks,
\* their ids unique over the catalog, their names shared between albums.
CatalogTracks(a, k) ==
    [j \in 1..k |-> [id |-> 100 * a + 10 * k + j, name |-> j]]

\* The answers the provider can give about artist a: sp.artist_albums
\* raises, or returns up to n albums; each album has one of the given
\* <<release date, whether sp.album_tracks raises>> pairs.
Responses(a, choices, n) ==
    {[albums_raise |-> TRUE, albums |-> <<>>]}
    \cup {[albums_raise |-> FALSE,
           albums |-> [k \in 1..Len(c) |->
                          [id |-> k,
                           release_date |-> c[k][1],
                           tracks_raise |-> c[k][2],
                           tracks |-> CatalogTracks(a, k)]]] :
             c \in UNION {[1..m -> choices] : m \in 0..n}}

\* lines 71-77: the track_info tuples of an album's tracks.
TrackInfos(album, artist) ==
    [j \in 1..Len(album.tracks) |->
        <<album.tracks[j].id, album.tracks[j].name, album.release_date,
          artist.threads, artist.name>>]

\* lines 54-102: `for album in albums['items']`, from the given accumulators.
\* raised is TRUE when an exception leaves the loop.
RECURSIVE AlbumLoop(_, _, _, _, _, _)
AlbumLoop(albums, artist, n, now, all_tracks, latest_track) ==
    IF albums = <<>>
       THEN [raised |-> FALSE, all_tracks |-> all_tracks, latest_track |-> latest_track]
       ELSE
    LET album == Head(albums)
        parsed == Parse(album.release_date, now)
        release_date == Ordinal(parsed.date)
        day_n_days_ago == Ordinal(now) - n
        beginning_of_year == Ordinal(<<now[1], 1, 1>>)
        infos == TrackInfos(album, artist)
        Continue == AlbumLoop(Tail(albums), artist, n, now, all_tracks, latest_track)
    IN  IF parsed.err = "TypeError" THEN Continue
        ELSE IF parsed.err # ""
             THEN [raised |-> TRUE, all_tracks |-> <<>>, latest_track |-> None]
        ELSE IF day_n_days_ago <= release_date /\ release_date <= Ordinal(now)
             THEN IF album.tracks_raise THEN Continue
                  ELSE AlbumLoop(Tail(albums), artist, n, now,
                                 all_tracks \o infos,
                                 IF latest_track = None /\ infos # <<>>
                                    THEN infos[1] ELSE latest_track)
        ELSE IF beginning_of_year <= release_date /\ release_date <= day_n_days_ago
             THEN IF album.tracks_raise THEN Continue
                  ELSE AlbumLoop(Tail(albums), artist, n, now,
                                 all_tracks \o infos, latest_track)
        ELSE Continue

\* lines 38-106.  response is what the provider answers about the artist.
get_recent_track(artist, response, n, now) ==
    IF artist.spotify_id = 0
       THEN [raised |-> TRUE, all_tracks |-> <<>>, latest_track |-> None]
    ELSE IF response.albums_raise
       THEN [raised |-> FALSE, all_tracks |-> <<>>, latest_track |-> None]
    ELSE LET r == AlbumLoop(response.albums, artist, n, now, <<>>, None)
         IN  IF r.raised THEN r
             ELSE [r EXCEPT !.all_tracks = SortByDateDesc(r.all_tracks)]

NoCall ==
    [called |-> FALSE, artist |-> 0,
     result |-> [raised |-> FALSE, all_tracks |-> <<>>, latest_track |-> None]]

CollectIdle ==
    /\ today = <<1, 1, 1>>
    /\ n_days_ago = 0
    /\ artists = <<>>
    /\ catalog = <<>>
    /\ a_idx = 0
    /\ c_all_playlist_tracks = <<>>
    /\ c_rr_playlist_tracks = <<>>
    /\ last_call = NoCall
    /\ c_pc = "idle"

\* lines 130-143: one iteration of `for artist in artists`.
CollectArtist ==
    /\ c_pc = "loop"
    /\ a_idx <= Len(artists)
    /\ LET artist == artists[a_idx]
       IN  IF artist.spotify_id = 0
              THEN /\ last_call' = NoCall
                   /\ UNCHANGED <<c_all_playlist_tracks, c_rr_playlist_tracks>>
              ELSE    LET r == get_recent_track(artist, catalog[a_idx], n_days_ago, today)
                      IN  /\ last_call' = [called |-> TRUE, artist |-> a_idx, result |-> r]
                          /\ IF r.raised
                                THEN UNCHANGED <<c_all_playlist_tracks, c_rr_playlist_tracks>>
                                ELSE /\ c_rr_playlist_tracks' =
                                           IF r.latest_track # None
                                              THEN Append(c_rr_playlist_tracks, r.latest_track)
                                              ELSE c_rr_playlist_tracks
                                     /\ c_all_playlist_tracks' =
                                           c_all_playlist_tracks \o r.all_tracks
    /\ a_idx' = a_idx + 1
    /\ UNCHANGED <<today, n_days_ago, artists, catalog, c_pc, syncVars, dedupVars>>

\* lines 146-155: both lists are sorted newest first, the year list is
\* deduplicated, and collect_tracks returns.
CollectReturn ==
    /\ c_pc = "loop"
    /\ a_idx > Len(artists)
    /\ c_rr_playlist_tracks' = SortByDateDesc(c_rr_playlist_tracks)
    /\ c_all_playlist_tracks' =
          deduplicate_track_list(SortByDateDesc(c_all_playlist_tracks))
    /\ c_pc' = "done"
    /\ UNCHANGED <<today, n_days_ago, artists, catalog, a_idx, last_call, syncVars, dedupVars>>

----------------------------------------------------------------------------
(* update_playlists *)

\* [track for track in desired if track[0] not in [ids of existing]]
NewTracks(desired, existing) ==
    SelectSeq(desired, LAMBDA track : track[1] \notin SeqSet(existing))

\* [id for id in existing if id not in [track[0] for track in desired]]
OldTrackIds(existing, desired) ==
    SelectSeq(existing, LAMBDA id : id \notin SeqSet(TrackIds(desired)))

\* new_all_tracks[i:i+50]
Chunk(ts, from) == SubSeq(ts, from + 1, Min(from + BatchSize, Len(ts)))

\* The tracks of the given ids, in that order.
TracksOf(ids) == [k \in 1..Len(ids) |-> MkTrack(ids[k])]

\* Every recent-releases playlist and every desired recent list, while the
\* all-this-year playlist is empty and at most one track is desired for it.
InitRecent ==
    /\ rr_playlist \in BoundedSeq(1..MaxId, MaxLen)
    /\ rr_playlist_tracks \in {TracksOf(s) : s \in BoundedSeq(1..MaxId, MaxDesired)}
    /\ all_playlist = <<>>
    /\ all_playlist_tracks \in {<<>>, TracksOf(<<1>>)}

\* Every all-this-year playlist and every desired year list (the list
\* collect_tracks returns has no repeated track), while the recent-releases
\* playlist is empty and at most one track is desired for it.
InitYear ==
    /\ all_playlist \in BoundedSeq(1..MaxAllId, MaxLen)
    /\ all_playlist_tracks \in
          {TracksOf(s) : s \in {q \in BoundedSeq(1..MaxAllId, MaxDesired) : NoDup(q)}}
    /\ rr_playlist = <<>>
    /\ rr_playlist_tracks \in {<<>>, TracksOf(<<1>>)}

\* Inputs long enough to need more than one chunk.
InitLong ==
    /\ rr_playlist = <<>>
    /\ all_playlist = <<>>
    /\ rr_playlist_tracks \in {TrackRange(n) : n \in {BatchSize, BatchSize + 1}}
    /\ all_playlist_tracks \in {TrackRange(n) : n \in {BatchSize, BatchSize + 1}}

Init ==
    /\ InitRecent \/ InitYear \/ InitLong
    /\ dry_run \in BOOLEAN
    /\ pc = "start"
    /\ results = [items |-> <<>>, next |-> 0]
    /\ tracks = <<>>
    /\ existing_rr_playlist_tracks = <<>>
    /\ existing_all_playlist_tracks = <<>>
    /\ new_rr_tracks = <<>>
    /\ new_all_tracks = <<>>
    /\ old_rr_track_ids = <<>>
    /\ i = 0
    /\ calls = <<>>
    /\ returned = <<>>
    /\ run = 1
    /\ prev_pc = "none"
    /\ failed_at = "none"
    /\ prev_failed_at = "none"
    /\ rr0 = rr_playlist
    /\ all0 = all_playlist
    /\ CollectIdle
    /\ DedupIdle

\* line 160: only the first page of the recent-releases playlist is read.
ListRR ==
    /\ pc = "start"
    /\ existing_rr_playlist_tracks' = PlaylistPage(rr_playlist, 0).items
    /\ pc' = "list_all"
    /\ UNCHANGED <<rr_playlist, all_playlist, rr_playlist_tracks, all_playlist_tracks,
                   dry_run, results, tracks, existing_all_playlist_tracks,
                   new_rr_tracks, new_all_tracks, old_rr_track_ids, i, calls,
                   returned, run, prev_pc, failed_at, prev_failed_at, rr0, all0,
                   collectVars, dedupVars>>

\* line 161, get_playlist_tracks lines 123-124: the first page.
GetPlaylistTracksFirst ==
    /\ pc = "list_all"
    /\ results' = PlaylistPage(all_playlist, 0)
    /\ tracks' = results'.items
    /\ pc' = "paging"
    /\ UNCHANGED <<rr_playlist, all_playlist, rr_playlist_tracks, all_playlist_tracks,
                   dry_run, existing_rr_playlist_tracks, existing_all_playlist_tracks,
                   new_rr_tracks, new_all_tracks, old_rr_track_ids, i, calls,
                   returned, run, prev_pc, failed_at, prev_failed_at, rr0, all0,
                   collectVars, dedupVars>>

\* get_playlist_tracks lines 125-127: one iteration of while results['next'].
GetPlaylistTracksNext ==
    /\ pc = "paging"
    /\ results.next # 0
    /\ results' = PlaylistPage(all_playlist, results.next)
    /\ tracks' = tracks \o results'.items
    /\ UNCHANGED <<rr_playlist, all_playlist, rr_playlist_tracks, all_playlist_tracks,
                   dry_run, pc, existing_rr_playlist_tracks, existing_all_playlist_tracks,
                   new_rr_tracks, new_all_tracks, old_rr_track_ids, i, calls,
                   returned, run, prev_pc, failed_at, prev_failed_at, rr0, all0,
                   collectVars, dedupVars>>

\* Diff without the early return of lines 175-177: the removal list is
\* computed and the run goes on to the mutations whatever dry_run is.
DiffIgnoringDryRun ==
    /\ pc = "paging"
    /\ results.next = 0
    /\ existing_all_playlist_tracks' = tracks
    /\ new_rr_tracks' = NewTracks(rr_playlist_tracks, existing_rr_playlist_tracks)
    /\ new_all_tracks' = NewTracks(all_playlist_tracks, tracks)
    /\ old_rr_track_ids' = OldTrackIds(existing_rr_playlist_tracks, rr_playlist_tracks)
    /\ pc' = "remove"
    /\ UNCHANGED <<rr_playlist, all_playlist, rr_playlist_tracks, all_playlist_tracks,
                   dry_run, results, tracks, existing_rr_playlist_tracks, i, calls,
                   returned, run, prev_pc, failed_at, prev_failed_at, rr0, all0,
                   collectVars, dedupVars>>

\* get_playlist_tracks line 128 and update_playlists lines 164-181: the
\* listing returns, the add lists are computed, a dry run returns them, and
\* otherwise the removal list is computed.
Diff ==
    /\ pc = "paging"
    /\ results.next = 0
    /\ existing_all_playlist_tracks' = tracks
    /\ new_rr_tracks' = NewTracks(rr_playlist_tracks, existing_rr_playlist_tracks)
    /\ new_all_tracks' = NewTracks(all_playlist_tracks, tracks)
    /\ IF dry_run
          THEN /\ returned' = <<new_rr_tracks', new_all_tracks'>>
               /\ pc' = "done"
               /\ UNCHANGED old_rr_track_ids
          ELSE /\ old_rr_track_ids' = OldTrackIds(existing_rr_playlist_tracks, rr_playlist_tracks)
               /\ pc' = "remove"
               /\ UNCHANGED returned
    /\ UNCHANGED <<rr_playlist, all_playlist, rr_playlist_tracks, all_playlist_tracks,
                   dry_run, results, tracks, existing_rr_playlist_tracks, i, calls,
                   run, prev_pc, failed_at, prev_failed_at, rr0, all0,
                   collectVars, dedupVars>>

\* lines 184-186
RemoveOld ==
    /\ pc = "remove"
    /\ IF old_rr_track_ids # <<>>
          THEN /\ rr_playlist' = RemoveAllOccurrences(rr_playlist, old_rr_track_ids)
               /\ calls' = Append(calls, [op |-> "remove", playlist |-> "rr",
                                          ids |-> old_rr_track_ids])
          ELSE UNCHANGED <<rr_playlist, calls>>
    /\ pc' = "add_rr"
    /\ UNCHANGED <<all_playlist, rr_playlist_tracks, all_playlist_tracks, dry_run,
                   results, tracks, existing_rr_playlist_tracks,
                   existing_all_playlist_tracks, new_rr_tracks, new_all_tracks,
                   old_rr_track_ids, i, returned, run, prev_pc, failed_at,
                   prev_failed_at, rr0, all0,
                   collectVars, dedupVars>>

\* lines 189-192
AddRR ==
    /\ pc = "add_rr"
    /\ IF new_rr_tracks # <<>>
          THEN /\ rr_playlist' = AddItemsAtHead(rr_playlist, TrackIds(new_rr_tracks))
               /\ calls' = Append(calls, [op |-> "add", playlist |-> "rr",
                                          ids |-> TrackIds(new_rr_tracks)])
          ELSE UNCHANGED <<rr_playlist, calls>>
    /\ pc' = "add_all"
    /\ i' = 0
    /\ UNCHANGED <<all_playlist, rr_playlist_tracks, all_playlist_tracks, dry_run,
                   results, tracks, existing_rr_playlist_tracks,
                   existing_all_playlist_tracks, new_rr_tracks, new_all_tracks,
                   old_rr_track_ids, returned, run, prev_pc, failed_at,
                   prev_failed_at, rr0, all0,
                   collectVars, dedupVars>>

\* lines 198-203: one iteration of for i in range(0, len(new_all_tracks), 50)
AddAllChunk ==
    /\ pc = "add_all"
    /\ i < Len(new_all_tracks)
    /\ all_playlist' = AddItemsAtHead(all_playlist, TrackIds(Chunk(new_all_tracks, i)))
    /\ calls' = Append(calls, [op |-> "add", playlist |-> "all",
                               ids |-> TrackIds(Chunk(new_all_tracks, i))])
    /\ i' = i + BatchSize
    /\ UNCHANGED <<rr_playlist, rr_playlist_tracks, all_playlist_tracks, dry_run, pc,
                   results, tracks, existing_rr_playlist_tracks,
                   existing_all_playlist_tracks, new_rr_tracks, new_all_tracks,
                   old_rr_track_ids, returned, run, prev_pc, failed_at,
                   prev_failed_at, rr0, all0,
                   collectVars, dedupVars>>

\* line 206
Return ==
    /\ pc = "add_all"
    /\ i >= Len(new_all_tracks)
    /\ returned' = <<new_rr_tracks, new_all_tracks>>
    /\ pc' = "done"
    /\ UNCHANGED <<rr_playlist, all_playlist, rr_playlist_tracks, all_playlist_tracks,
                   dry_run, results, tracks, existing_rr_playlist_tracks,
                   existing_all_playlist_tracks, new_rr_tracks, new_all_tracks,
                   old_rr_track_ids, i, calls, run, prev_pc, failed_at,
                   prev_failed_at, rr0, all0,
                   collectVars, dedupVars>>

\* The positions at which update_playlists is about to call the provider.
AtProviderCall ==
    \/ pc \in {"start", "list_all"}
    \/ pc = "paging" /\ results.next # 0
    \/ pc = "remove" /\ old_rr_track_ids # <<>>
    \/ pc = "add_rr" /\ new_rr_tracks # <<>>
    \/ pc = "add_all" /\ i < Len(new_all_tracks)

\* A provider call raises: update_playlists has no try/except, so the
\* exception leaves it and nothing after the call is executed.
ProviderError ==
    /\ AtProviderCall
    /\ failed_at' = pc
    /\ pc' = "failed"
    /\ UNCHANGED <<rr_playlist, all_playlist, rr_playlist_tracks, all_playlist_tracks,
                   dry_run, results, tracks, existing_rr_playlist_tracks,
                   existing_all_playlist_tracks, new_rr_tracks, new_all_tracks,
                   old_rr_track_ids, i, calls, returned, run, prev_pc,
                   prev_failed_at, rr0, all0,
                   collectVars, dedupVars>>

\* The script is run again (main, lines 233-253) with the same desired
\* lists against the playlists as the previous run left them.
Rerun ==
    /\ pc \in {"done", "failed"}
    /\ run < MaxRuns
    /\ run' = run + 1
    /\ prev_pc' = pc
    /\ prev_failed_at' = failed_at
    /\ failed_at' = "none"
    /\ pc' = "start"
    /\ results' = [items |-> <<>>, next |-> 0]
    /\ tracks' = <<>>
    /\ existing_rr_playlist_tracks' = <<>>
    /\ existing_all_playlist_tracks' = <<>>
    /\ new_rr_tracks' = <<>>
    /\ new_all_tracks' = <<>>
    /\ old_rr_track_ids' = <<>>
    /\ i' = 0
    /\ calls' = <<>>
    /\ returned' = <<>>
    /\ UNCHANGED <<rr_playlist, all_playlist, rr_playlist_tracks, all_playlist_tracks,
                   dry_run, rr0, all0,
                   collectVars, dedupVars>>

Next ==
    \/ ListRR
    \/ GetPlaylistTracksFirst
    \/ GetPlaylistTracksNext
    \/ Diff
    \/ RemoveOld
    \/ AddRR
    \/ AddAllChunk
    \/ Return
    \/ ProviderError
    \/ Rerun

Spec == Init /\ [][Next]_vars

SyncIdle ==
    /\ rr_playlist = <<>>
    /\ all_playlist = <<>>
    /\ rr_playlist_tracks = <<>>
    /\ all_playlist_tracks = <<>>
    /\ dry_run = TRUE
    /\ pc = "idle"
    /\ results = [items |-> <<>>, next |-> 0]
    /\ tracks = <<>>
    /\ existing_rr_playlist_tracks = <<>>
    /\ existing_all_playlist_tracks = <<>>
    /\ new_rr_tracks = <<>>
    /\ new_all_tracks = <<>>
    /\ old_rr_track_ids = <<>>
    /\ i = 0
    /\ calls = <<>>
    /\ returned = <<>>
    /\ run = 0
    /\ prev_pc = "none"
    /\ failed_at = "none"
    /\ prev_failed_at = "none"
    /\ rr0 = <<>>
    /\ all0 = <<>>

----------------------------------------------------------------------------
(* collect_tracks over every roster, date, lookback and provider answer *)

\* The roster of m artists; has_id[a] tells whether artist a has a spotify_id.
Roster(m, has_id) ==
    [a \in 1..m |-> [spotify_id |-> IF has_id[a] THEN a ELSE 0,
                     threads |-> "threads", name |-> a]]

\* One artist, every date, every lookback, every release date.
InitWindow ==
    /\ today \in {<<MaxYear, m, d>> : m \in 1..MonthsPerYear, d \in 1..DaysPerMonth}
    /\ n_days_ago \in 0..MaxLookback
    /\ artists = Roster(1, <<TRUE>>)
    /\ \E r \in Responses(1, (DateStrings \cup {NoneDate, UnparsableDate}) \X BOOLEAN,
                          MaxAlbums) :
          catalog = <<r>>

\* Up to MaxArtists artists on the last day of the year, with releases of
\* today, of the first day of the year, and with unreadable dates.
InitRoster ==
    /\ today = <<MaxYear, MonthsPerYear, DaysPerMonth>>
    /\ n_days_ago = 1
    /\ \E m \in 1..MaxArtists :
          /\ \E has_id \in [1..m -> BOOLEAN] : artists = Roster(m, has_id)
          /\ catalog \in [1..m ->
                UNION {Responses(a,
                                 {<<today, FALSE>>, <<today, TRUE>>,
                                  <<(<<MaxYear, 1, 1>>), FALSE>>,
                                  <<NoneDate, FALSE>>, <<UnparsableDate, FALSE>>},
                                 MaxAlbums) : a \in 1..m}]
          /\ \A a \in 1..m :
                \A k \in 1..Len(catalog[a].albums) :
                   catalog[a].albums[k].tracks = CatalogTracks(a, k)

InitCollect ==
    /\ InitWindow \/ InitRoster
    /\ a_idx = 1
    /\ c_all_playlist_tracks = <<>>
    /\ c_rr_playlist_tracks = <<>>
    /\ last_call = NoCall
    /\ c_pc = "loop"
    /\ SyncIdle
    /\ DedupIdle

NextCollect ==
    \/ CollectArtist
    \/ CollectReturn

SpecCollect == InitCollect /\ [][NextCollect]_vars

----------------------------------------------------------------------------
(* deduplicate_track_list over every input *)

\* Every input of up to MaxTracks records.  Titles are numbered in the order
\* of their first occurrence, which leaves out only renamings of the titles.
InitDedup ==
    /\ \E m \in 0..MaxTracks :
          \E titles \in [1..m -> 1..MaxTracks] :
             \E dates \in [1..m -> DateStrings \cup {<<>>}] :
                /\ \A k \in 1..m :
                      titles[k] = 1 \/ \E j \in 1..(k - 1) : titles[j] = titles[k] - 1
                /\ dd_tracks = [k \in 1..m |-> DedupRecord(k, titles[k], dates[k])]
    /\ unique_tracks = <<>>
    /\ dd_pc = "call"
    /\ SyncIdle
    /\ CollectIdle

NextDedup == Deduplicate

SpecDedup == InitDedup /\ [][NextDedup]_vars

----------------------------------------------------------------------------
(* Properties of update_playlists *)

\* The recent-releases playlist a single uninterrupted run leaves, computed
\* from the playlist before the run (lines 160, 164-166, 180-191).
UninterruptedRR(playlist, desired) ==
    LET existing == PlaylistPage(playlist, 0).items
    IN  AddItemsAtHead(
            RemoveAllOccurrences(playlist, OldTrackIds(existing, desired)),
            TrackIds(NewTracks(desired, existing)))

\* True once the current run has computed its add lists and, when not a dry
\* run, its removal list.
DiffComputed == (pc \in {"remove", "add_rr", "add_all"}) \/ (pc = "done")

\* C1: a second run after a completed non-dry run, with the same desired
\* lists, computes an empty add list for both playlists and an empty
\* removal list, and so issues no add and no remove call.
C1_Idempotent ==
    (run = 2 /\ prev_pc = "done" /\ ~dry_run /\ DiffComputed)
        => /\ new_rr_tracks = <<>>
           /\ new_all_tracks = <<>>
           /\ old_rr_track_ids = <<>>
           /\ calls = <<>>

\* C2: after a completed non-dry run the set of ids in the recent-releases
\* playlist is exactly the set of ids of the desired recent list.
C2_WindowedReplaceComplete ==
    (run = 1 /\ pc = "done" /\ ~dry_run)
        => SeqSet(rr_playlist) = SeqSet(TrackIds(rr_playlist_tracks))

\* C3: no playlist_add_items call, for either playlist, carries more than
\* 50 track ids.
C3_BatchSizeCompliance ==
    \A k \in 1..Len(calls) :
        calls[k].op = "add" => Len(calls[k].ids) <= BatchSize

\* C6: when the add and removal lists of a playlist are computed, the
\* listing they are computed from is the whole playlist, every page of it.
C6_ExhaustivePaging ==
    (pc = "remove" \/ (pc = "done" /\ dry_run))
        => /\ existing_rr_playlist_tracks = rr_playlist
           /\ existing_all_playlist_tracks = all_playlist

\* C7: in a dry run no add and no remove call is issued, both playlists stay
\* as they were, and the run returns the tracks that would be added: the
\* desired tracks absent from the listing of each playlist.
C7_DryRunNoMutation ==
    dry_run
        => /\ calls = <<>>
           /\ rr_playlist = rr0
           /\ all_playlist = all0
           /\ pc = "done" =>
                 /\ returned[1] = NewTracks(rr_playlist_tracks, PlaylistPage(rr0, 0).items)
                 /\ returned[2] = NewTracks(all_playlist_tracks, all0)

\* C7 witness: a dry run has returned non-empty add lists for both
\* playlists while the recent-releases playlist also holds a stale track.
C7_Witness ==
    /\ dry_run
    /\ pc = "done"
    /\ returned[1] # <<>>
    /\ returned[2] # <<>>
    /\ OldTrackIds(existing_rr_playlist_tracks, rr_playlist_tracks) # <<>>

\* C9: after a run in which a remove or add call failed, a complete run with
\* the same desired lists leaves each playlist with the set of ids a single
\* uninterrupted run from the original state leaves.
C9_RecoveryByRerun ==
    (run = 2 /\ pc = "done" /\ ~dry_run /\ prev_pc = "failed"
        /\ prev_failed_at \in {"remove", "add_rr", "add_all"})
        => /\ SeqSet(rr_playlist) = SeqSet(UninterruptedRR(rr0, rr_playlist_tracks))
           /\ SeqSet(all_playlist) =
                 SeqSet(all0) \cup SeqSet(TrackIds(all_playlist_tracks))

\* C10: a recent-releases playlist without a repeated id before a non-dry
\* run has no repeated id after it.
C10_NoDuplicateMembership ==
    (run = 1 /\ pc = "done" /\ ~dry_run /\ NoDup(rr0)) => NoDup(rr_playlist)

----------------------------------------------------------------------------
(* Properties of get_recent_track and collect_tracks *)

\* The ids of the tracks of an album.
AlbumTrackIds(album) == {album.tracks[j].id : j \in 1..Len(album.tracks)}

\* Some track of the album is among the tracks get_recent_track returned.
Emitted(album, result) ==
    \E k \in 1..Len(result.all_tracks) : result.all_tracks[k][1] \in AlbumTrackIds(album)

\* The album supplied latest_track.
SuppliesLatest(album, result) ==
    /\ result.latest_track # None
    /\ result.latest_track[1] \in AlbumTrackIds(album)

\* C4: a release dated d is recent when today - N <= d <= today,
\* year-to-date-not-recent when January 1 <= d < today - N, and ignored
\* otherwise; a release dated outside [January 1 of today's year, today] is
\* ignored: none of its tracks is emitted and it cannot supply latest_track.
C4_WindowPartition ==
    (last_call.called /\ ~last_call.result.raised
        /\ ~catalog[last_call.artist].albums_raise)
    => \A k \in 1..Len(catalog[last_call.artist].albums) :
          LET album == catalog[last_call.artist].albums[k]
              parsed == Parse(album.release_date, today)
              d == Ordinal(parsed.date)
              recentStart == Ordinal(today) - n_days_ago
              yearStart == Ordinal(<<today[1], 1, 1>>)
              outside == d < yearStart \/ d > Ordinal(today)
              recent == recentStart <= d /\ d <= Ordinal(today)
              ytd == yearStart <= d /\ d < recentStart
          IN  parsed.err = "" =>
                 /\ outside => ~Emitted(album, last_call.result)
                               /\ ~SuppliesLatest(album, last_call.result)
                 /\ (~outside /\ recent /\ ~album.tracks_raise)
                       => Emitted(album, last_call.result)
                 /\ (ytd /\ ~album.tracks_raise)
                       => Emitted(album, last_call.result)
                          /\ ~SuppliesLatest(album, last_call.result)
                 /\ (~recent /\ ~ytd) => ~Emitted(album, last_call.result)

\* C8: when a release of an artist fails, every other release of the artist
\* that is in the window and whose tracks can be fetched still has its tracks
\* returned by get_recent_track and accumulated by collect_tracks, in the
\* year collection and, for a recent release, in the recent collection.
C8_PerReleaseIsolation ==
    (c_pc = "loop" /\ last_call.called /\ ~catalog[last_call.artist].albums_raise)
    => \A k \in 1..Len(catalog[last_call.artist].albums) :
          LET album == catalog[last_call.artist].albums[k]
              parsed == Parse(album.release_date, today)
              d == Ordinal(parsed.date)
              recentStart == Ordinal(today) - n_days_ago
              yearStart == Ordinal(<<today[1], 1, 1>>)
              recent == recentStart <= d /\ d <= Ordinal(today)
              ytd == yearStart <= d /\ d < recentStart
          IN  (parsed.err = "" /\ ~album.tracks_raise /\ (recent \/ ytd)) =>
                 /\ AlbumTrackIds(album) \subseteq SeqSet(TrackIds(last_call.result.all_tracks))
                 /\ AlbumTrackIds(album) \subseteq SeqSet(TrackIds(c_all_playlist_tracks))
                 /\ recent => \E t \in 1..Len(c_rr_playlist_tracks) :
                                 c_rr_playlist_tracks[t][5] = artists[last_call.artist].name

----------------------------------------------------------------------------
(* Properties of deduplicate_track_list *)

\* The calendar date of a release date string, a missing month or day
\* counting as the 1st.
CalendarDate(s) ==
    <<s[1], IF Len(s) >= 2 THEN s[2] ELSE 1, IF Len(s) >= 3 THEN s[3] ELSE 1>>

\* C5: for an input of 5-field records the output has at most one record
\* per title, every title of the input is in the output, and the record of a
\* title is an input record whose calendar date is the latest among the
\* input records of that title.
C5_DedupCorrect ==
    (dd_pc = "done" /\ \A k \in 1..Len(dd_tracks) : Len(dd_tracks[k]) = 5)
    => /\ \A a, b \in 1..Len(unique_tracks) :
             unique_tracks[a][2] = unique_tracks[b][2] => a = b
       /\ \A k \in 1..Len(dd_tracks) :
             \E o \in 1..Len(unique_tracks) : unique_tracks[o][2] = dd_tracks[k][2]
       /\ \A o \in 1..Len(unique_tracks) :
             /\ unique_tracks[o] \in SeqSet(dd_tracks)
             /\ \A k \in 1..Len(dd_tracks) :
                   dd_tracks[k][2] = unique_tracks[o][2]
                      => Ordinal(CalendarDate(dd_tracks[k][3]))
                            <= Ordinal(CalendarDate(unique_tracks[o][3]))

\* C5 witness: an input of 5-field records in which a title occurs with a
\* year-only date and, later in the input, with a later full date, has been
\* collapsed to fewer records.
C5_Witness ==
    /\ dd_pc = "done"
    /\ \A k \in 1..Len(dd_tracks) : Len(dd_tracks[k]) = 5
    /\ Len(unique_tracks) < Len(dd_tracks)
    /\ \E j, k \in 1..Len(dd_tracks) :
          /\ j < k
          /\ dd_tracks[j][2] = dd_tracks[k][2]
          /\ Len(dd_tracks[j][3]) = 1
          /\ Len(dd_tracks[k][3]) = 3
          /\ Ordinal(CalendarDate(dd_tracks[j][3])) < Ordinal(CalendarDate(dd_tracks[k][3]))

====
